---- MODULE Spec2Model ----
(***************************************************************************)
(* Reachability, deadlock detection and optimisation over 1-safe Petri     *)
(* nets (PetriNetBDDs/src): the explicit breadth-first explorer, the       *)
(* semi-symbolic fixed point of SymbolicAnalyzer, the ILP deadlock         *)
(* detector and the ILP optimiser with no-good cuts.                       *)
(*                                                                         *)
(* A marking (frozenset of place ids) is a set of places.  A marking dict  *)
(* {place: 0/1} is a function from places to {0, 1}.  A BDD over one       *)
(* variable per place is the set of markings that satisfy it: reduced      *)
(* ordered BDDs are canonical, so equality of BDD nodes is equality of     *)
(* these sets.  An optional value (None or a value) is a set with at most  *)
(* one element.  The arc list of a net is a relation: no arc occurs twice, *)
(* so the inputs/outputs lists built by the loader hold no place twice and *)
(* every loop over them is order-independent; they are sets here.          *)
(***************************************************************************)
EXTENDS Integers, Sequences, FiniteSets, TLC

\* Identifiers of the nets that are explored, and Python's sorted() order on them.
PlaceIds == {"p1", "p2"}
TransIds == {"t1", "t2"}
SortedIds == <<"p1", "p2", "p3", "p4", "t1", "t2", "t3", "t4">>

\* Bounds of the exploration.
MaxArcs == 4
MaxSigma == 2
MaxCuts == 2
MaxWeight == 1

VARIABLES
    places,         \* model.places: the place ids
    marked,         \* the places p with model.places[p].marked
    transitions,    \* model.transitions: the transition ids, in dict order
    arcs,           \* model.arcs: (source, target) pairs
    pc,             \* position in analyze_model / the function that was called
    visited,        \* explicit_reachability: visited
    queue,          \* explicit_reachability: queue
    edges,          \* explicit_reachability: edges
    dequeued,       \* the markings popped from queue so far, in order
    deadlocks,      \* find_deadlocks(model, states_explicit)
    reach,          \* compute_reachability: reach
    iteration,      \* compute_reachability: iteration
    num_reachable,  \* SymbolicAnalyzer.num_reachable
    reachable_markings, \* results["reachable_markings"]: None or a set of markings
    reach_sets_equal,   \* analyze_model: reach_sets_equal (None, True or False)
    ilp,            \* the call of find_deadlock_with_ilp and what it returned
    opt,            \* the state of optimize_reachable
    call            \* a single function call and what it returned

vars == <<places, marked, transitions, arcs, pc, visited, queue, edges, dequeued,
          deadlocks, reach, iteration, num_reachable, reachable_markings,
          reach_sets_equal, ilp, opt, call>>

netVars == <<places, marked, transitions, arcs>>
explicitVars == <<visited, queue, edges, dequeued>>
symbolicVars == <<reach, iteration, num_reachable, reachable_markings>>

----------------------------------------------------------------------------
\* Generic helpers.

Range(s) == {s[i] : i \in 1..Len(s)}

None == {}
Some(x) == {x}

RECURSIVE SumOver(_, _)
SumOver(S, f) ==
    IF S = {} THEN 0
    ELSE LET x == CHOOSE y \in S : TRUE IN f[x] + SumOver(S \ {x}, f)

\* sorted(ids): the ids in Python's string order.
sorted(S) == SelectSeq(SortedIds, LAMBDA x : x \in S)

----------------------------------------------------------------------------
\* The model built by PNModel.load_pnml.

\* Transition.inputs: the places with an arc place -> transition.
Inputs(tid) == {a[1] : a \in {b \in arcs : b[2] = tid /\ b[1] \in places}}

\* Transition.outputs: the places with an arc transition -> place.
Outputs(tid) == {a[2] : a \in {b \in arcs : b[1] = tid /\ b[2] \in places}}

\* Place.inputs: the transitions with an arc transition -> place.
PlaceInputs(p) == {a[1] : a \in {b \in arcs : b[2] = p /\ b[1] \in Range(transitions)}}

\* Place.outputs: the transitions with an arc place -> transition.
PlaceOutputs(p) == {a[2] : a \in {b \in arcs : b[1] = p /\ b[2] \in Range(transitions)}}

\* initial_marking(model)
initial_marking == {p \in places : p \in marked}

----------------------------------------------------------------------------
\* Enabling and firing.

\* A transition without input places taken as never enabled.
is_enabled_some_input(marking, tid) ==
    Inputs(tid) # {} /\ \A p \in Inputs(tid) : p \in marking

is_enabled_always(marking, tid) == TRUE

\* is_enabled(model, marking, tid): all(p in marking for p in t.inputs)
is_enabled(marking, tid) == \A p \in Inputs(tid) : p \in marking

\* is_enabled(model, marking, tid) of explicit.py
explicit_is_enabled(marking, tid) == \A p \in Inputs(tid) : p \in marking

fire_add_first(marking, tid) == (marking \cup Outputs(tid)) \ Inputs(tid)

\* fire(model, marking, tid) of task2: preset places are removed when present,
\* then postset places are added.
fire(marking, tid) == (marking \ (Inputs(tid) \cap marking)) \cup Outputs(tid)

\* fire(model, marking, tid) of explicit.py: set.remove raises KeyError on a
\* preset place that is not in the marking.
explicit_fire(marking, tid) ==
    IF \E p \in Inputs(tid) : p \notin marking
    THEN [error |-> TRUE, marking |-> None]
    ELSE [error |-> FALSE, marking |-> Some((marking \ Inputs(tid)) \cup Outputs(tid))]

----------------------------------------------------------------------------
\* Explicit reachability (task2_ExplicitReachability/explicit_reachability.py).
\* st is the record of the locals visited, queue and edges.

RECURSIVE for_transitions_new_only(_, _, _)
\* The for loop with the edge recorded only when the destination is new.
for_transitions_new_only(M, i, st) ==
    IF i > Len(transitions) THEN st
    ELSE LET tid == transitions[i] IN
         IF is_enabled(M, tid)
         THEN LET M2 == fire(M, tid) IN
              for_transitions_new_only(M, i + 1,
                  [visited |-> st.visited \cup {M2},
                   queue   |-> IF M2 \notin st.visited
                               THEN Append(st.queue, M2) ELSE st.queue,
                   edges   |-> IF M2 \notin st.visited
                               THEN Append(st.edges, <<M, tid, M2>>) ELSE st.edges])
         ELSE for_transitions_new_only(M, i + 1, st)

RECURSIVE for_transitions_enqueue_always(_, _, _)
\* The for loop without the test `if newM not in visited`.
for_transitions_enqueue_always(M, i, st) ==
    IF i > Len(transitions) THEN st
    ELSE LET tid == transitions[i] IN
         IF is_enabled(M, tid)
         THEN LET M2 == fire(M, tid) IN
              for_transitions_enqueue_always(M, i + 1,
                  [visited |-> st.visited \cup {M2},
                   queue   |-> Append(st.queue, M2),
                   edges   |-> Append(st.edges, <<M, tid, M2>>)])
         ELSE for_transitions_enqueue_always(M, i + 1, st)

RECURSIVE for_transitions_fire_in_place(_, _, _)
\* The for loop over a fire that changes the marking it is given: the popped M
\* is the successor from then on.
for_transitions_fire_in_place(M, i, st) ==
    IF i > Len(transitions) THEN st
    ELSE LET tid == transitions[i] IN
         IF is_enabled(M, tid)
         THEN LET M2 == fire(M, tid) IN
              for_transitions_fire_in_place(M2, i + 1,
                  [visited |-> st.visited \cup {M2},
                   queue   |-> IF M2 \notin st.visited
                               THEN Append(st.queue, M2) ELSE st.queue,
                   edges   |-> Append(st.edges, <<M2, tid, M2>>)])
         ELSE for_transitions_fire_in_place(M, i + 1, st)

RECURSIVE for_transitions_append_left(_, _, _)
\* The for loop with queue.appendleft(M2): the worklist is a stack.
for_transitions_append_left(M, i, st) ==
    IF i > Len(transitions) THEN st
    ELSE LET tid == transitions[i] IN
         IF is_enabled(M, tid)
         THEN LET M2 == fire(M, tid) IN
              for_transitions_append_left(M, i + 1,
                  [visited |-> st.visited \cup {M2},
                   queue   |-> IF M2 \notin st.visited
                               THEN <<M2>> \o st.queue ELSE st.queue,
                   edges   |-> Append(st.edges, <<M, tid, M2>>)])
         ELSE for_transitions_append_left(M, i + 1, st)

RECURSIVE for_transitions_first_enabled(_, _, _)
\* The for loop left (break) after the first enabled transition.
for_transitions_first_enabled(M, i, st) ==
    IF i > Len(transitions) THEN st
    ELSE LET tid == transitions[i] IN
         IF is_enabled(M, tid)
         THEN LET M2 == fire(M, tid) IN
              [visited |-> st.visited \cup {M2},
               queue   |-> IF M2 \notin st.visited
                           THEN Append(st.queue, M2) ELSE st.queue,
               edges   |-> Append(st.edges, <<M, tid, M2>>)]
         ELSE for_transitions_first_enabled(M, i + 1, st)

RECURSIVE for_transitions(_, _, _)
\* for tid in model.transitions, from the i-th transition on, for the popped M.
for_transitions(M, i, st) ==
    IF i > Len(transitions) THEN st
    ELSE LET tid == transitions[i] IN
         IF is_enabled(M, tid)
         THEN LET M2 == fire(M, tid) IN
              for_transitions(M, i + 1,
                  [visited |-> st.visited \cup {M2},
                   queue   |-> IF M2 \notin st.visited
                               THEN Append(st.queue, M2) ELSE st.queue,
                   edges   |-> Append(st.edges, <<M, tid, M2>>)])
         ELSE for_transitions(M, i + 1, st)

\* One iteration of `while queue`: M = queue.popleft(), then the for loop.
while_iteration(st) ==
    for_transitions(Head(st.queue), 1, [st EXCEPT !.queue = Tail(st.queue)])

RECURSIVE while_queue(_)
while_queue(st) == IF st.queue = <<>> THEN st ELSE while_queue(while_iteration(st))

\* explicit_reachability(model), as one call: (visited, edges).
explicit_reachability ==
    LET st == while_queue([visited |-> {initial_marking},
                           queue   |-> <<initial_marking>>,
                           edges   |-> <<>>])
    IN [visited |-> st.visited, edges |-> st.edges]

\* explicit_reachability(model) of explicit.py: the same loop over its own fire,
\* whose KeyError ends the call.
RECURSIVE explicit_for_transitions(_, _, _)
explicit_for_transitions(M, i, st) ==
    IF i > Len(transitions) \/ st.error THEN st
    ELSE LET tid == transitions[i] IN
         IF explicit_is_enabled(M, tid)
         THEN LET r == explicit_fire(M, tid) IN
              IF r.error THEN [st EXCEPT !.error = TRUE]
              ELSE LET M2 == CHOOSE m \in r.marking : TRUE IN
                   explicit_for_transitions(M, i + 1,
                       [visited |-> st.visited \cup {M2},
                        queue   |-> IF M2 \notin st.visited
                                    THEN Append(st.queue, M2) ELSE st.queue,
                        edges   |-> Append(st.edges, <<M, tid, M2>>),
                        error   |-> FALSE])
         ELSE explicit_for_transitions(M, i + 1, st)

RECURSIVE explicit_while_queue(_)
explicit_while_queue(st) ==
    IF st.queue = <<>> \/ st.error THEN st
    ELSE explicit_while_queue(
             explicit_for_transitions(Head(st.queue), 1,
                                      [st EXCEPT !.queue = Tail(st.queue)]))

explicit_explicit_reachability ==
    LET M0 == {p \in places : p \in marked}
        st == explicit_while_queue([visited |-> {M0}, queue |-> <<M0>>,
                                    edges |-> <<>>, error |-> FALSE])
    IN [error |-> st.error, visited |-> st.visited, edges |-> st.edges]

find_deadlocks_any_disabled(states) ==
    {M \in states : \E tid \in Range(transitions) : ~is_enabled(M, tid)}

\* find_deadlocks(model, states): the markings of states with no enabled
\* transition (a list in the iteration order of the set, which is unspecified).
find_deadlocks(states) ==
    {M \in states : ~(\E tid \in Range(transitions) : is_enabled(M, tid))}

----------------------------------------------------------------------------
\* Symbolic reachability (task3_BddBasedReachability/bdd_reachability.py).

\* Every assignment of the BDD variables created by initialize_bdd_variables.
AllMarkings == SUBSET places

bdd_true == AllMarkings
bdd_false == {}

\* self.bdd.var(self.place_vars[place_id])
bdd_var(place_id) == {m \in AllMarkings : place_id \in m}

\* marking_to_bdd: the conjunction of one literal per place, which is true of
\* the one marking that agrees with `marking` on every place.
marking_to_bdd(marking) == {marking \cap places}

\* The support of a BDD: the variables the function depends on (flipping the
\* variable in some marking of u leads out of u).
support(u) ==
    {p \in places : \E m \in u : (m \cup {p}) \notin u \/ (m \ {p}) \notin u}

pick_iter_all_vars(u) == {[p \in places |-> p \in m] : m \in u}

\* self.bdd.pick_iter(u) with care_vars left at None: the satisfying
\* assignments of the variables in the support of u, and of no other variable.
pick_iter(u) ==
    LET support_u == support(u) IN {[p \in support_u |-> p \in m] : m \in u}

\* The marking read from an assignment: assignment.get(var_name, False).
assignment_marking(assignment) ==
    {p \in places : p \in DOMAIN assignment /\ assignment[p]}

\* bdd_to_markings(bdd_node)
bdd_to_markings(bdd_node) ==
    IF bdd_node = bdd_false THEN {}
    ELSE {assignment_marking(a) : a \in pick_iter(bdd_node)}

\* is_enabled_bdd(marking_set, tid): marking_set & (conjunction of the preset variables)
is_enabled_bdd(marking_set, tid) ==
    marking_set \cap {m \in bdd_true : \A p \in Inputs(tid) : m \in bdd_var(p)}

\* compute_image(marking_set, tid)
compute_image(marking_set, tid) ==
    LET enabled_states == is_enabled_bdd(marking_set, tid) IN
    IF enabled_states = bdd_false THEN bdd_false
    ELSE UNION {marking_to_bdd((assignment_marking(a) \ Inputs(tid)) \cup Outputs(tid)) :
                    a \in pick_iter(enabled_states)}

\* The step without the union with reach: reach = new_states.
fixpoint_step_image_only(r) == UNION {compute_image(r, tid) : tid \in Range(transitions)}

RECURSIVE new_states_loop(_, _, _)
\* for tid in self.model.transitions: new_states = new_states | compute_image(reach, tid),
\* from the i-th transition on.
new_states_loop(r, i, new_states) ==
    IF i > Len(transitions) THEN new_states
    ELSE new_states_loop(r, i + 1, new_states \cup compute_image(r, transitions[i]))

\* One iteration of the fixed-point loop: reach | new_states.
fixpoint_step(r) == r \cup new_states_loop(r, 1, bdd_false)

RECURSIVE fixpoint_loop(_, _)
fixpoint_loop(r, n) ==
    LET new == fixpoint_step(r) IN
    IF new = r THEN [reach |-> new, iteration |-> n + 1]
    ELSE fixpoint_loop(new, n + 1)

\* compute_reachability(), as one call: the fixed point and the iterations it took.
compute_reachability ==
    fixpoint_loop(marking_to_bdd({p \in places : p \in marked}), 0)

\* self.bdd.count(reach, len(self.place_vars))
bdd_count(u) == Cardinality(u)

\* The ceiling of analyze(): markings are extracted when num_reachable <= 1000.
ExtractCeiling == 1000

analyze_extract_always(u) == Some(bdd_to_markings(u))

\* analyze(): results["reachable_markings"]
analyze_extract(u) ==
    IF bdd_count(u) <= ExtractCeiling THEN Some(bdd_to_markings(u)) ELSE None

----------------------------------------------------------------------------
\* Conversions of analyze_model (main.py).

\* marking_dict_to_frozenset(m)
marking_dict_to_frozenset(m) == {p \in DOMAIN m : m[p] = 1}

\* markings_to_dict_list(markings, places): one dict per marking (a list in the
\* iteration order of the set, which is unspecified).
markings_to_dict_list(markings, places_list) ==
    {[p \in Range(places_list) |-> IF p \in M THEN 1 ELSE 0] : M \in markings}

\* transitions_ilp: one DeadlockTransition per transition, in dict order.
transitions_ilp ==
    [i \in 1..Len(transitions) |->
        [name |-> transitions[i], pre |-> Inputs(transitions[i]),
         post |-> Outputs(transitions[i])]]

----------------------------------------------------------------------------
\* ILP deadlock detection (task4_IlpBddDeadlockDetection/deadlock_detection.py
\* and task4/task4.py).  The candidates are a set of marking dicts.

\* The assignments of (M_vars, y_vars) that satisfy the constraints of the
\* problem, projected on M_vars.  skip_empty is the guard `if not t.pre: continue`.
ilp_solutions(places_list, trs, reachable, skip_empty) ==
    {M \in [Range(places_list) -> {0, 1}] :
        \E y \in [reachable -> {0, 1}] :
            /\ SumOver(reachable, y) = 1
            /\ \A p \in Range(places_list) :
                   M[p] = SumOver(reachable, [m \in reachable |-> y[m] * m[p]])
            /\ \A i \in 1..Len(trs) :
                   \/ skip_empty /\ trs[i].pre = {}
                   \/ SumOver(trs[i].pre, M) <= Cardinality(trs[i].pre) - 1}

ilp_results_ignore_transitions(places_list, trs, reachable, skip_empty) ==
    IF reachable = {} THEN {[found |-> FALSE, marking |-> None, solves |-> 1,
               status |-> "Infeasible"]}
    ELSE {[found |-> TRUE, marking |-> Some(M), solves |-> 1,
               status |-> "Optimal"] : M \in reachable}

ilp_results_all_empty(places_list, trs, reachable, skip_empty) ==
    IF \A i \in 1..Len(trs) : Cardinality(trs[i].pre) = 0
    THEN {[found |-> FALSE, marking |-> None, solves |-> 0, status |-> ""]}
    ELSE LET sols == ilp_solutions(places_list, trs, reachable, skip_empty) IN
         IF sols = {}
         THEN {[found |-> FALSE, marking |-> None, solves |-> 1,
               status |-> "Infeasible"]}
         ELSE {[found |-> TRUE, marking |-> Some(M), solves |-> 1,
               status |-> "Optimal"] : M \in sols}

ilp_results_no_quick_check(places_list, trs, reachable, skip_empty) ==
    LET sols == ilp_solutions(places_list, trs, reachable, skip_empty) IN
    IF sols = {}
    THEN {[found |-> FALSE, marking |-> None, solves |-> 1,
               status |-> "Infeasible"]}
    ELSE {[found |-> TRUE, marking |-> Some(M), solves |-> 1,
               status |-> "Optimal"] : M \in sols}

\* What the call may return: (found, marking), with the number of solver calls.
\* The solver returns any solution of a feasible problem.
ilp_results(places_list, trs, reachable, skip_empty) ==
    IF \E i \in 1..Len(trs) : Cardinality(trs[i].pre) = 0
    THEN {[found |-> FALSE, marking |-> None, solves |-> 0, status |-> ""]}
    ELSE LET sols == ilp_solutions(places_list, trs, reachable, skip_empty) IN
         IF sols = {}
         THEN {[found |-> FALSE, marking |-> None, solves |-> 1,
               status |-> "Infeasible"]}
         ELSE {[found |-> TRUE, marking |-> Some(M), solves |-> 1,
               status |-> "Optimal"] : M \in sols}

\* The statuses of pulp.LpStatus other than Optimal and Infeasible with which
\* the solver may stop.
InconclusiveStatuses == {"Not Solved", "Undefined"}

\* What the call returns when the solver stops with such a status (lines 158-162).
ilp_results_inconclusive(places_list, trs, reachable, skip_empty) ==
    IF \E i \in 1..Len(trs) : Cardinality(trs[i].pre) = 0
    THEN {[found |-> FALSE, marking |-> None, solves |-> 0, status |-> ""]}
    ELSE {[found |-> FALSE, marking |-> None, solves |-> 1, status |-> st] :
              st \in InconclusiveStatuses}

\* find_deadlock_with_ilp of deadlock_detection.py
find_deadlock_with_ilp(places_list, trs, reachable) ==
    ilp_results(places_list, trs, reachable, TRUE)

\* find_deadlock_with_ilp of task4/task4.py: no guard in the loop of step 5.
task4_find_deadlock_with_ilp(places_list, trs, reachable) ==
    ilp_results(places_list, trs, reachable, FALSE)

----------------------------------------------------------------------------
\* Optimisation over the reachable markings
\* (task5_ReachableOptimization/optimization.py and optimization.py).

\* The matrix with the columns in dict order of the transitions instead of
\* sorted order.
incidence_matrix_dict_order ==
    LET sorted_places == sorted(places)
    IN [i \in 1..Len(sorted_places) |->
          [j \in 1..Len(transitions) |->
              (IF transitions[j] \in PlaceInputs(sorted_places[i]) THEN 1 ELSE 0)
            - (IF transitions[j] \in PlaceOutputs(sorted_places[i]) THEN 1 ELSE 0)]]

\* _build_incidence_matrix: A[i][j] = post_val - pre_val, rows and columns in
\* sorted order.
incidence_matrix ==
    LET sorted_places == sorted(places)
        sorted_transitions == sorted(Range(transitions))
    IN [i \in 1..Len(sorted_places) |->
          [j \in 1..Len(sorted_transitions) |->
              (IF sorted_transitions[j] \in PlaceInputs(sorted_places[i]) THEN 1 ELSE 0)
            - (IF sorted_transitions[j] \in PlaceOutputs(sorted_places[i]) THEN 1 ELSE 0)]]

\* The equation without the initial marking: M[p] = sum_j A[i, j] * sigma[t_j].
state_equation_without_M0(M, sigma) ==
    LET ps == sorted(places)
        ts == sorted(Range(transitions))
        A == incidence_matrix
    IN \A i \in 1..Len(ps) :
           M[ps[i]] = SumOver(1..Len(ts), [j \in 1..Len(ts) |-> A[i][j] * sigma[ts[j]]])

\* The constraints State_Eq_p: M[p] = M0_p + sum_j A[i, j] * sigma[t_j].
state_equation(M, sigma) ==
    LET ps == sorted(places)
        ts == sorted(Range(transitions))
        A == incidence_matrix
    IN \A i \in 1..Len(ps) :
           M[ps[i]] = (IF ps[i] \in marked THEN 1 ELSE 0)
                      + SumOver(1..Len(ts), [j \in 1..Len(ts) |-> A[i][j] * sigma[ts[j]]])

\* The firing counts sigma[t] >= 0 that are explored.
Sigmas == [Range(transitions) -> 0..MaxSigma]

\* A cut that excludes nothing.
no_good_cut_none(optimal_M, M) == TRUE

\* A cut built from the marked places of the candidate only.
no_good_cut_ones_only(optimal_M, M) ==
    LET ones == {p \in DOMAIN optimal_M : optimal_M[p] = 1}
    IN SumOver(ones, [p \in ones |-> 1 - M[p]]) >= 1

\* The constraint NoGoodCut_k built for the candidate optimal_M.
no_good_cut(optimal_M, M) ==
    LET ones == {p \in DOMAIN optimal_M : optimal_M[p] = 1}
        zeros == {p \in DOMAIN optimal_M : optimal_M[p] = 0}
    IN SumOver(ones, [p \in ones |-> 1 - M[p]]) + SumOver(zeros, M) >= 1

\* The problem without the constraints State_Eq_p.
prob_setup_without_state_equation == [places -> {0, 1}]

\* The problem as it is set up once (lines 186-202): the values of M_vars in the
\* solutions of the state equation.
prob_setup ==
    {M \in [places -> {0, 1}] : \E sigma \in Sigmas : state_equation(M, sigma)}

\* The values of M_vars in the solutions of the problem with the cuts added so far.
prob_feasible(prob, cuts) ==
    {M \in prob : \A k \in 1..Len(cuts) : no_good_cut(cuts[k], M)}

\* Objective_cT_M
objective(c, M) == SumOver(places, [p \in places |-> c[p] * M[p]])

\* A solver that minimises the objective.
prob_solve_minimize(prob, c, cuts) ==
    LET feasible == prob_feasible(prob, cuts) IN
    IF feasible = {} THEN {[status |-> "Infeasible", M |-> None]}
    ELSE {[status |-> "Optimal", M |-> Some(M)] :
             M \in {N \in feasible : \A K \in feasible : objective(c, K) >= objective(c, N)}}
         \cup {[status |-> "Not Solved", M |-> None]}

\* prob.solve(): the status and the values of M_vars.  With the time limit the
\* solver may stop before it has a solution ("Not Solved").
prob_solve(prob, c, cuts) ==
    LET feasible == prob_feasible(prob, cuts) IN
    IF feasible = {} THEN {[status |-> "Infeasible", M |-> None]}
    ELSE {[status |-> "Optimal", M |-> Some(M)] :
             M \in {N \in feasible : \A K \in feasible : objective(c, K) <= objective(c, N)}}
         \cup {[status |-> "Not Solved", M |-> None]}

\* An oracle that rejects every candidate.
is_reachable_bdd_never(marking_dict, bdd_reach) == FALSE

is_reachable_bdd_always(marking_dict, bdd_reach) == TRUE

\* The point function built from the marked places only (no negated variable).
is_reachable_bdd_marked_only(marking_dict, bdd_reach) ==
    LET fs_marking == {p \in DOMAIN marking_dict : marking_dict[p] = 1}
        marking_bdd == {m \in bdd_true : \A p \in fs_marking : p \in m}
    IN (marking_bdd \cap bdd_reach) # bdd_false

\* is_reachable_bdd(marking_dict, bdd_reach, place_vars, bdd_instance)
is_reachable_bdd(marking_dict, bdd_reach) ==
    LET fs_marking == {p \in DOMAIN marking_dict : marking_dict[p] = 1}
        marking_bdd == {m \in bdd_true : \A p \in places : (p \in m) <=> (p \in fs_marking)}
    IN (marking_bdd \cap bdd_reach) # bdd_false

\* is_reachable_bdd of optimization.py (lines 63-75), the same steps
optimization_is_reachable_bdd(marking_dict, bdd_reach) ==
    LET fs_marking == {p \in DOMAIN marking_dict : marking_dict[p] = 1}
        marking_bdd == {m \in bdd_true : \A p \in places : (p \in m) <=> (p \in fs_marking)}
    IN (marking_bdd \cap bdd_reach) # bdd_false

----------------------------------------------------------------------------
\* The nets that are explored: the places of PlaceIds, any transitions of
\* TransIds in any dict order, at most MaxArcs arcs between them, any initial
\* marking.

TransitionOrders ==
    {s \in UNION {[1..n -> TransIds] : n \in 0..Cardinality(TransIds)} :
        \A i, j \in 1..Len(s) : i # j => s[i] # s[j]}

ArcsOver(P, ts) == (P \X Range(ts)) \cup (Range(ts) \X P)

NoOpt ==
    [version |-> "none", prob |-> {}, c |-> <<>>, max_cuts |-> 0, bdd_reach |-> {}, cuts |-> <<>>,
     cut_count |-> 0, iteration |-> 0, status |-> "", candidates |-> <<>>,
     result |-> None, log |-> "", solves |-> 0]

NoIlp == [called |-> FALSE, reachable |-> {}, found |-> FALSE, marking |-> None,
          solves |-> 0, status |-> ""]

Init ==
    /\ places = PlaceIds
    /\ transitions \in TransitionOrders
    /\ arcs \in {A \in SUBSET ArcsOver(places, transitions) : Cardinality(A) <= MaxArcs}
    /\ marked \in SUBSET places
    /\ pc = "loaded"
    /\ visited = {}
    /\ queue = <<>>
    /\ edges = <<>>
    /\ dequeued = <<>>
    /\ deadlocks = {}
    /\ reach = {}
    /\ iteration = 0
    /\ num_reachable = 0
    /\ reachable_markings = None
    /\ reach_sets_equal = None
    /\ ilp = NoIlp
    /\ opt = NoOpt
    /\ call = [fn |-> "none"]

----------------------------------------------------------------------------
\* analyze_model (main.py): Task 2, Task 3, their comparison, Task 4, Task 5.

\* explicit_reachability, lines 88-92
explicit_start ==
    /\ pc = "loaded"
    /\ visited' = {initial_marking}
    /\ queue' = <<initial_marking>>
    /\ edges' = <<>>
    /\ dequeued' = <<>>
    /\ pc' = "explicit"
    /\ UNCHANGED <<netVars, deadlocks, symbolicVars, reach_sets_equal, ilp, opt, call>>

\* explicit_reachability, one iteration of `while queue` (lines 94-105)
explicit_iterate ==
    /\ pc = "explicit"
    /\ queue # <<>>
    /\ LET st == while_iteration([visited |-> visited, queue |-> queue, edges |-> edges])
       IN /\ visited' = st.visited
          /\ queue' = st.queue
          /\ edges' = st.edges
    /\ dequeued' = Append(dequeued, Head(queue))
    /\ UNCHANGED <<netVars, pc, deadlocks, symbolicVars, reach_sets_equal, ilp, opt, call>>

\* explicit_reachability, line 107: the queue is empty
explicit_return ==
    /\ pc = "explicit"
    /\ queue = <<>>
    /\ pc' = "explicit_done"
    /\ UNCHANGED <<netVars, explicitVars, deadlocks, symbolicVars, reach_sets_equal,
                   ilp, opt, call>>

\* main.py line 118: deadlocks_explicit = find_deadlocks(model, states_explicit)
main_find_deadlocks ==
    /\ pc = "explicit_done"
    /\ deadlocks' = find_deadlocks(visited)
    /\ pc' = "symbolic_start"
    /\ UNCHANGED <<netVars, explicitVars, symbolicVars, reach_sets_equal, ilp, opt, call>>

\* compute_reachability, lines 206-216
symbolic_start ==
    /\ pc = "symbolic_start"
    /\ reach' = marking_to_bdd({p \in places : p \in marked})
    /\ iteration' = 0
    /\ pc' = "symbolic"
    /\ UNCHANGED <<netVars, explicitVars, deadlocks, num_reachable, reachable_markings,
                   reach_sets_equal, ilp, opt, call>>

\* compute_reachability, one iteration of the fixed-point loop (lines 217-233)
\* and, at the fixed point, lines 235-240
symbolic_iterate ==
    /\ pc = "symbolic"
    /\ iteration' = iteration + 1
    /\ reach' = fixpoint_step(reach)
    /\ IF reach' = reach
       THEN /\ num_reachable' = bdd_count(reach')
            /\ pc' = "analyze"
       ELSE UNCHANGED <<num_reachable, pc>>
    /\ UNCHANGED <<netVars, explicitVars, deadlocks, reachable_markings,
                   reach_sets_equal, ilp, opt, call>>

\* SymbolicAnalyzer.analyze, lines 260-268
symbolic_analyze ==
    /\ pc = "analyze"
    /\ reachable_markings' = analyze_extract(reach)
    /\ pc' = "compare"
    /\ UNCHANGED <<netVars, explicitVars, deadlocks, reach, iteration, num_reachable,
                   reach_sets_equal, ilp, opt, call>>

\* main.py lines 147-171: reach_sets_equal
main_compare ==
    /\ pc = "compare"
    /\ reach_sets_equal' =
           IF reachable_markings # None
           THEN LET markings_bdd == CHOOSE s \in reachable_markings : TRUE IN
                IF Cardinality(visited) = num_reachable
                THEN Some(visited = markings_bdd)
                ELSE Some(FALSE)
           ELSE None
    /\ pc' = "ilp"
    /\ UNCHANGED <<netVars, explicitVars, deadlocks, symbolicVars, ilp, opt, call>>

\* main.py lines 180-205: Task 4 on the markings of Task 3, or of Task 2 when
\* those were not extracted
main_ilp ==
    /\ pc = "ilp"
    /\ LET reachable_for_ilp ==
               IF reachable_markings # None
               THEN CHOOSE s \in reachable_markings : TRUE
               ELSE visited
           places_list == sorted(places)
           reachable_markings_list == markings_to_dict_list(reachable_for_ilp, places_list)
       IN \E r \in find_deadlock_with_ilp(places_list, transitions_ilp,
                                          reachable_markings_list) :
              ilp' = [called |-> TRUE, reachable |-> reachable_markings_list,
                      found |-> r.found, marking |-> r.marking, solves |-> r.solves,
                      status |-> r.status]
    /\ pc' = "optimize"
    /\ UNCHANGED <<netVars, explicitVars, deadlocks, symbolicVars, reach_sets_equal,
                   opt, call>>

\* Task 4 of analyze_model when the solver stops with a status other than
\* Optimal and Infeasible.
main_ilp_inconclusive ==
    /\ pc = "ilp"
    /\ LET reachable_for_ilp ==
               IF reachable_markings # None
               THEN CHOOSE s \in reachable_markings : TRUE
               ELSE visited
           places_list == sorted(places)
           reachable_markings_list == markings_to_dict_list(reachable_for_ilp, places_list)
       IN \E r \in ilp_results_inconclusive(places_list, transitions_ilp,
                                            reachable_markings_list, TRUE) :
              ilp' = [called |-> TRUE, reachable |-> reachable_markings_list,
                      found |-> r.found, marking |-> r.marking, solves |-> r.solves,
                      status |-> r.status]
    /\ pc' = "optimize"
    /\ UNCHANGED <<netVars, explicitVars, deadlocks, symbolicVars, reach_sets_equal,
                   opt, call>>

\* The reachable set after one image step only, not iterated to the fixed point.
\* The reachable set without the initial marking.
get_bdd_reach_data_successors_only ==
    compute_reachability.reach \ marking_to_bdd({p \in places : p \in marked})

get_bdd_reach_data_one_step ==
    fixpoint_step(marking_to_bdd({p \in places : p \in marked}))

\* get_bdd_reach_data(model): a new SymbolicAnalyzer is run on the model and its
\* reachable_bdd is returned.
get_bdd_reach_data == compute_reachability.reach

\* The objective weights that are explored (the cut budgets are 0..MaxCuts).
Objectives == [places -> 0..MaxWeight]

\* optimize_reachable of task5, lines 178-207: the reachable set of Task 3 is
\* computed again (get_bdd_reach_data), the problem is set up without cuts
optimize_start ==
    /\ pc = "optimize"
    /\ LET bdd_reach == get_bdd_reach_data
           prob == prob_setup
       IN \E c \in Objectives, max_cuts \in 0..MaxCuts :
              opt' = [NoOpt EXCEPT !.version = "refine", !.prob = prob, !.c = c,
                                   !.max_cuts = max_cuts, !.bdd_reach = bdd_reach]
    /\ pc' = "optimizing"
    /\ UNCHANGED <<netVars, explicitVars, deadlocks, symbolicVars, reach_sets_equal,
                   ilp, call>>

\* The budget message replaced by the message of the solver branch.
log_max_cuts_as_not_optimal == "not_optimal"

\* "Reached maximum number of cuts ... Stopping optimization without a reachable
\* solution." (lines 259-262), the last message of the log
log_max_cuts == "max_cuts"

\* A budget test that lets one more cut through.
budget_exhausted_strict(cut_count, max_cuts) == cut_count > max_cuts

\* if cut_count >= max_cuts (line 258)
budget_exhausted(cut_count, max_cuts) == cut_count >= max_cuts

\* optimize_reachable of task5, one iteration of the loop (lines 209-263)
optimize_iterate ==
    /\ pc = "optimizing"
    /\ \E o \in prob_solve(opt.prob, opt.c, opt.cuts) :
         LET solved == [opt EXCEPT !.iteration = @ + 1, !.solves = @ + 1,
                                   !.status = o.status]
         IN IF o.status # "Optimal"
            THEN /\ opt' = [solved EXCEPT !.result = None, !.log = "not_optimal"]
                 /\ pc' = "done"
            ELSE LET optimal_M == CHOOSE M \in o.M : TRUE
                     tried == [solved EXCEPT !.candidates = Append(@, optimal_M)]
                 IN IF is_reachable_bdd(optimal_M, opt.bdd_reach)
                    THEN /\ opt' = [tried EXCEPT !.result = Some(optimal_M),
                                                 !.log = "accepted"]
                         /\ pc' = "done"
                    ELSE LET cut == [tried EXCEPT !.cuts = Append(@, optimal_M),
                                                  !.cut_count = @ + 1]
                         IN IF budget_exhausted(cut.cut_count, opt.max_cuts)
                            THEN /\ opt' = [cut EXCEPT !.result = None,
                                                       !.log = log_max_cuts]
                                 /\ pc' = "done"
                            ELSE /\ opt' = cut
                                 /\ pc' = "optimizing"
    /\ UNCHANGED <<netVars, explicitVars, deadlocks, symbolicVars, reach_sets_equal,
                   ilp, call>>

\* optimize_reachable of optimization.py (lines 78-123): one solve, no cut
optimize_single_shot ==
    /\ pc = "optimize"
    /\ LET bdd_reach == get_bdd_reach_data
           prob == prob_setup
       IN \E c \in Objectives : \E o \in prob_solve(prob, c, <<>>) :
         LET solved == [NoOpt EXCEPT !.version = "single", !.prob = prob, !.c = c,
                                     !.bdd_reach = bdd_reach,
                                     !.iteration = 1, !.solves = 1, !.status = o.status]
         IN IF o.status # "Optimal"
            THEN opt' = [solved EXCEPT !.result = None, !.log = "not_optimal"]
            ELSE LET optimal_M == CHOOSE M \in o.M : TRUE
                     tried == [solved EXCEPT !.candidates = <<optimal_M>>]
                 IN IF ~optimization_is_reachable_bdd(optimal_M, solved.bdd_reach)
                    THEN opt' = [tried EXCEPT !.result = None, !.log = "not_reachable"]
                    ELSE opt' = [tried EXCEPT !.result = Some(optimal_M),
                                              !.log = "accepted"]
    /\ pc' = "done"
    /\ UNCHANGED <<netVars, explicitVars, deadlocks, symbolicVars, reach_sets_equal,
                   ilp, call>>

----------------------------------------------------------------------------
\* Single calls of the functions on a loaded model, with any arguments.

callFrame == <<netVars, explicitVars, deadlocks, symbolicVars, reach_sets_equal, ilp, opt>>

call_is_enabled(marking, tid) ==
    /\ pc = "loaded"
    /\ call' = [fn |-> "is_enabled", marking |-> marking, tid |-> tid,
                ret |-> is_enabled(marking, tid)]
    /\ pc' = "returned"
    /\ UNCHANGED callFrame

call_explicit_is_enabled(marking, tid) ==
    /\ pc = "loaded"
    /\ call' = [fn |-> "explicit_is_enabled", marking |-> marking, tid |-> tid,
                ret |-> explicit_is_enabled(marking, tid)]
    /\ pc' = "returned"
    /\ UNCHANGED callFrame

call_fire(marking, tid) ==
    /\ pc = "loaded"
    /\ call' = [fn |-> "fire", marking |-> marking, tid |-> tid,
                error |-> FALSE, ret |-> Some(fire(marking, tid))]
    /\ pc' = "returned"
    /\ UNCHANGED callFrame

call_explicit_fire(marking, tid) ==
    /\ pc = "loaded"
    /\ LET r == explicit_fire(marking, tid) IN
       call' = [fn |-> "explicit_fire", marking |-> marking, tid |-> tid,
                error |-> r.error, ret |-> r.marking]
    /\ pc' = "returned"
    /\ UNCHANGED callFrame

call_is_reachable_bdd(marking_dict, bdd_reach) ==
    /\ pc = "loaded"
    /\ call' = [fn |-> "is_reachable_bdd", marking_dict |-> marking_dict,
                bdd_reach |-> bdd_reach, ret |-> is_reachable_bdd(marking_dict, bdd_reach)]
    /\ pc' = "returned"
    /\ UNCHANGED callFrame

call_optimization_is_reachable_bdd(marking_dict, bdd_reach) ==
    /\ pc = "loaded"
    /\ call' = [fn |-> "optimization_is_reachable_bdd", marking_dict |-> marking_dict,
                bdd_reach |-> bdd_reach,
                ret |-> optimization_is_reachable_bdd(marking_dict, bdd_reach)]
    /\ pc' = "returned"
    /\ UNCHANGED callFrame

call_compute_image(marking_set, tid) ==
    /\ pc = "loaded"
    /\ call' = [fn |-> "compute_image", marking_set |-> marking_set, tid |-> tid,
                ret |-> compute_image(marking_set, tid)]
    /\ pc' = "returned"
    /\ UNCHANGED callFrame

call_find_deadlocks(states) ==
    /\ pc = "loaded"
    /\ call' = [fn |-> "find_deadlocks", states |-> states, ret |-> find_deadlocks(states)]
    /\ pc' = "returned"
    /\ UNCHANGED callFrame

call_find_deadlock_with_ilp(reachable) ==
    /\ pc = "loaded"
    /\ \E r \in find_deadlock_with_ilp(sorted(places), transitions_ilp, reachable) :
           call' = [fn |-> "find_deadlock_with_ilp", reachable |-> reachable,
                    found |-> r.found, marking |-> r.marking, solves |-> r.solves,
                    status |-> r.status]
    /\ pc' = "returned"
    /\ UNCHANGED callFrame

call_task4_find_deadlock_with_ilp(reachable) ==
    /\ pc = "loaded"
    /\ \E r \in task4_find_deadlock_with_ilp(sorted(places), transitions_ilp, reachable) :
           call' = [fn |-> "task4_find_deadlock_with_ilp", reachable |-> reachable,
                    found |-> r.found, marking |-> r.marking, solves |-> r.solves,
                    status |-> r.status]
    /\ pc' = "returned"
    /\ UNCHANGED callFrame

call_explicit_reachability ==
    /\ pc = "loaded"
    /\ LET r == explicit_reachability IN
       call' = [fn |-> "explicit_reachability", error |-> FALSE,
                visited |-> r.visited, edges |-> r.edges]
    /\ pc' = "returned"
    /\ UNCHANGED callFrame

call_explicit_explicit_reachability ==
    /\ pc = "loaded"
    /\ LET r == explicit_explicit_reachability IN
       call' = [fn |-> "explicit_explicit_reachability", error |-> r.error,
                visited |-> r.visited, edges |-> r.edges]
    /\ pc' = "returned"
    /\ UNCHANGED callFrame

\* The marking dicts over the places of the model.
MarkingDicts == [places -> {0, 1}]

CallNext ==
    \/ \E marking \in SUBSET places, tid \in Range(transitions) : call_is_enabled(marking, tid)
    \/ \E marking \in SUBSET places, tid \in Range(transitions) :
           call_explicit_is_enabled(marking, tid)
    \/ \E marking \in SUBSET places, tid \in Range(transitions) : call_fire(marking, tid)
    \/ \E marking \in SUBSET places, tid \in Range(transitions) : call_explicit_fire(marking, tid)
    \/ \E states \in SUBSET (SUBSET places) : call_find_deadlocks(states)
    \/ \E reachable \in SUBSET MarkingDicts : call_find_deadlock_with_ilp(reachable)
    \/ \E reachable \in SUBSET MarkingDicts : call_task4_find_deadlock_with_ilp(reachable)
    \/ call_explicit_reachability
    \/ call_explicit_explicit_reachability
    \/ \E marking_dict \in MarkingDicts, bdd_reach \in SUBSET AllMarkings :
           call_is_reachable_bdd(marking_dict, bdd_reach)
    \/ \E marking_dict \in MarkingDicts, bdd_reach \in SUBSET AllMarkings :
           call_optimization_is_reachable_bdd(marking_dict, bdd_reach)
    \/ \E marking_set \in SUBSET AllMarkings, tid \in Range(transitions) :
           call_compute_image(marking_set, tid)

SpecCalls == Init /\ [][CallNext]_vars

\* analyze_model, and the script of explicit.py (lines 60-63) on the same model.
Next ==
    \/ explicit_start
    \/ explicit_iterate
    \/ explicit_return
    \/ main_find_deadlocks
    \/ symbolic_start
    \/ symbolic_iterate
    \/ symbolic_analyze
    \/ main_compare
    \/ main_ilp
    \/ optimize_start
    \/ optimize_iterate
    \/ optimize_single_shot
    \/ call_explicit_explicit_reachability

Spec == Init /\ [][Next]_vars

\* analyze_model where the solver of Task 4 may also stop without an answer.
NextInconclusive ==
    \/ Next
    \/ main_ilp_inconclusive

SpecInconclusive == Init /\ [][NextInconclusive]_vars

\* The program is sequential: the loop of explicit_reachability goes on with its
\* next iteration and returns when the queue is empty; the fixed-point loop of
\* compute_reachability goes on with its next iteration; every call of the solver
\* returns and the loop of optimize_reachable goes on with its next iteration.
SpecLive ==
    /\ Init /\ [][Next]_vars
    /\ WF_vars(explicit_iterate)
    /\ WF_vars(explicit_return)
    /\ WF_vars(symbolic_iterate)
    /\ WF_vars(optimize_iterate)

----------------------------------------------------------------------------
\* A 1-safe net of four places: t1 moves the token of p1 to p2, t2 does the
\* same and consumes p4, t3 moves the token of p2 to p3, t4 consumes p4.
\* Initially p1 and p4 are marked.  The transitions come in any dict order.

SafeNetPlaces == {"p1", "p2", "p3", "p4"}

SafeNetTransitions == {"t1", "t2", "t3", "t4"}

SafeNetArcs ==
    {<<"p1", "t1">>, <<"t1", "p2">>,
     <<"p1", "t2">>, <<"p4", "t2">>, <<"t2", "p2">>,
     <<"p2", "t3">>, <<"t3", "p3">>,
     <<"p4", "t4">>}

InitSafeNet ==
    /\ places = SafeNetPlaces
    /\ transitions \in {seq \in [1..4 -> SafeNetTransitions] :
                           \A i, j \in 1..4 : seq[i] = seq[j] => i = j}
    /\ arcs = SafeNetArcs
    /\ marked = {"p1", "p4"}
    /\ pc = "loaded"
    /\ visited = {}
    /\ queue = <<>>
    /\ edges = <<>>
    /\ dequeued = <<>>
    /\ deadlocks = {}
    /\ reach = {}
    /\ iteration = 0
    /\ num_reachable = 0
    /\ reachable_markings = None
    /\ reach_sets_equal = None
    /\ ilp = NoIlp
    /\ opt = NoOpt
    /\ call = [fn |-> "none"]

SpecSafeNet == InitSafeNet /\ [][Next]_vars

----------------------------------------------------------------------------
\* SymbolicAnalyzer(model).analyze() on its own, on nets of twelve places that
\* only lose tokens: three groups a, b, c and three single places s.  Every
\* place has a transition that consumes its token; in a joint group the
\* transition of a also consumes b and c, so that a leaves only while b and c
\* are still marked (five markings of the group instead of eight).

LargeNetGroups == {"1", "2", "3"}

LargeNetPlaces ==
    {"a1", "b1", "c1", "a2", "b2", "c2", "a3", "b3", "c3", "s1", "s2", "s3"}

LargeNetTransitions ==
    <<"ta1", "tb1", "tc1", "ta2", "tb2", "tc2", "ta3", "tb3", "tc3",
      "ts1", "ts2", "ts3">>

LargeNetArcs == {<<p, "t" \o p>> : p \in LargeNetPlaces}

LargeNetJointArcs(g) == {<<"b" \o g, "ta" \o g>>, <<"c" \o g, "ta" \o g>>}

\* The model loaded from such a net, and the position from which it is analysed.
LargeNetLoaded(joint, m0, start) ==
    /\ places = LargeNetPlaces
    /\ transitions = LargeNetTransitions
    /\ arcs = LargeNetArcs \cup UNION {LargeNetJointArcs(g) : g \in joint}
    /\ marked = m0
    /\ pc = start
    /\ visited = {}
    /\ queue = <<>>
    /\ edges = <<>>
    /\ dequeued = <<>>
    /\ deadlocks = {}
    /\ reach = {}
    /\ iteration = 0
    /\ num_reachable = 0
    /\ reachable_markings = None
    /\ reach_sets_equal = None
    /\ ilp = NoIlp
    /\ opt = NoOpt
    /\ call = [fn |-> "none"]

InitLargeNet ==
    \E joint \in SUBSET LargeNetGroups :
        \E m0 \in {LargeNetPlaces, LargeNetPlaces \ {"s1"}} :
            LargeNetLoaded(joint, m0, "symbolic_start")

NextSymbolic ==
    \/ symbolic_start
    \/ symbolic_iterate
    \/ symbolic_analyze

SpecLargeNet == InitLargeNet /\ [][NextSymbolic]_vars

\* Tasks 2 and 3 of analyze_model on the net with two joint groups, all places
\* marked: 5 * 5 * 8 * 8 = 1600 reachable markings.
InitLargeNetTasks == LargeNetLoaded({"1", "2"}, LargeNetPlaces, "loaded")

NextTasks ==
    \/ explicit_start
    \/ explicit_iterate
    \/ explicit_return
    \/ main_find_deadlocks
    \/ symbolic_start
    \/ symbolic_iterate
    \/ symbolic_analyze

SpecLargeNetTasks == InitLargeNetTasks /\ [][NextTasks]_vars

----------------------------------------------------------------------------
\* The branching net of Test 5 (task4/testcases.py): t1: p1 -> p2, t2: p1 -> p3,
\* t3: p2 -> p4, t4: p3 -> p4, initially p1.  The transitions come in any dict
\* order.

ScenarioCPlaces == {"p1", "p2", "p3", "p4"}

ScenarioCTransitions == {"t1", "t2", "t3", "t4"}

ScenarioCArcs ==
    {<<"p1", "t1">>, <<"t1", "p2">>,
     <<"p1", "t2">>, <<"t2", "p3">>,
     <<"p2", "t3">>, <<"t3", "p4">>,
     <<"p3", "t4">>, <<"t4", "p4">>}

ScenarioCReachable == {{"p1"}, {"p2"}, {"p3"}, {"p4"}}

InitScenarioC ==
    /\ places = ScenarioCPlaces
    /\ transitions \in {seq \in [1..4 -> ScenarioCTransitions] :
                           \A i, j \in 1..4 : seq[i] = seq[j] => i = j}
    /\ arcs = ScenarioCArcs
    /\ marked = {"p1"}
    /\ pc = "loaded"
    /\ visited = {}
    /\ queue = <<>>
    /\ edges = <<>>
    /\ dequeued = <<>>
    /\ deadlocks = {}
    /\ reach = {}
    /\ iteration = 0
    /\ num_reachable = 0
    /\ reachable_markings = None
    /\ reach_sets_equal = None
    /\ ilp = NoIlp
    /\ opt = NoOpt
    /\ call = [fn |-> "none"]

SpecScenarioC == InitScenarioC /\ [][Next]_vars

----------------------------------------------------------------------------
\* What the properties refer to, stated on the net itself (its arc relation).

\* t is enabled in M: every place with an arc into t is marked.
EnabledIn(M, t) == \A p \in places : <<p, t>> \in arcs => p \in M

\* The marking after firing t in M: preset tokens removed, then postset tokens added.
Fired(M, t) ==
    (M \ {p \in places : <<p, t>> \in arcs}) \cup {p \in places : <<t, p>> \in arcs}

\* M is dead: no transition of the net is enabled in it.
Dead(M) == \A t \in Range(transitions) : ~EnabledIn(M, t)

RECURSIVE FiringClosure(_)
FiringClosure(S) ==
    LET E == S \cup UNION {{Fired(M, t) : t \in {u \in Range(transitions) : EnabledIn(M, u)}} :
                              M \in S}
    IN IF E = S THEN S ELSE FiringClosure(E)

\* The markings reachable from the initial marking by a finite firing sequence.
ReachableMarkings == FiringClosure({marked \cap places})

\* The marking (set of places) of a marking dict.
MarkedPlaces(m) == {p \in DOMAIN m : m[p] = 1}

\* M = M0 + A * sigma on the net: +1 per arc t -> p, -1 per arc p -> t.
StateEquationHolds(M, sigma) ==
    \A p \in places :
        M[p] = (IF p \in marked THEN 1 ELSE 0)
               + SumOver(Range(transitions),
                         [t \in Range(transitions) |->
                             ((IF <<t, p>> \in arcs THEN 1 ELSE 0)
                              - (IF <<p, t>> \in arcs THEN 1 ELSE 0)) * sigma[t]])

ExplicitReturned ==
    pc \in {"explicit_done", "symbolic_start", "symbolic", "analyze", "compare", "ilp",
            "optimize", "optimizing", "done"}

FireCall == pc = "returned" /\ call.fn \in {"fire", "explicit_fire"}
IlpCall == pc = "returned"
           /\ call.fn \in {"find_deadlock_with_ilp", "task4_find_deadlock_with_ilp"}

----------------------------------------------------------------------------
\* C1: the visited set returned by explicit_reachability (task2, run by
\* analyze_model, and explicit.py, run by its script) is exactly the set of
\* markings reachable from the initial marking by a finite sequence of enabled
\* firings.
C1_VisitedIsReachableSet ==
    /\ ExplicitReturned => visited = ReachableMarkings
    /\ (pc = "returned" /\ call.fn = "explicit_explicit_reachability")
           => ~call.error /\ call.visited = ReachableMarkings

C1_Witness ==
    /\ pc = "explicit_done"
    /\ Cardinality(visited) >= 3
    /\ visited # SUBSET places

\* C2: whenever analyze extracted the markings of the fixed point, the extracted
\* set equals the visited set of explicit_reachability for the same model.
C2_ExtractedEqualsExplicit ==
    (pc = "compare" /\ reachable_markings # None) => reachable_markings = Some(visited)

\* C3: for a marking in which t is enabled, fire (task2 and explicit.py) returns
\* (M minus preset) union postset, so a place in both preset and postset is marked.
C3_FireEnabled ==
    (FireCall /\ EnabledIn(call.marking, call.tid))
        => /\ ~call.error
           /\ call.ret = Some(Fired(call.marking, call.tid))
           /\ \A p \in places :
                  (<<p, call.tid>> \in arcs /\ <<call.tid, p>> \in arcs)
                      => \A M \in call.ret : p \in M

C3_Witness ==
    /\ FireCall /\ call.fn = "fire"
    /\ EnabledIn(call.marking, call.tid)
    /\ \E p \in places : <<p, call.tid>> \in arcs /\ <<call.tid, p>> \in arcs
    /\ \E p \in places : <<p, call.tid>> \in arcs /\ <<call.tid, p>> \notin arcs

\* C4: is_enabled (task2 and explicit.py) returns true iff every preset place of
\* t is in the marking; with an empty preset it returns true for every marking.
C4_IsEnabledIffPresetMarked ==
    (pc = "returned" /\ call.fn \in {"is_enabled", "explicit_is_enabled"})
        => /\ call.ret <=> EnabledIn(call.marking, call.tid)
           /\ (\A p \in places : <<p, call.tid>> \notin arcs) => call.ret

C4_Witness ==
    /\ pc = "returned" /\ call.fn = "is_enabled"
    /\ ~call.ret
    /\ call.marking # {}

C4_WitnessEmptyPreset ==
    /\ pc = "returned" /\ call.fn = "is_enabled"
    /\ \A p \in places : <<p, call.tid>> \notin arcs
    /\ call.marking = {}

\* C5: fire on a marking in which the transition is not enabled reports an error
\* and returns no marking.
C5_FireDisabledFails ==
    (FireCall /\ ~EnabledIn(call.marking, call.tid))
        => call.error /\ call.ret = None

\* C6: find_deadlocks(model, states) returns exactly the markings of states in
\* which no transition of the model is enabled.
C6_DeadlocksExact ==
    (pc = "returned" /\ call.fn = "find_deadlocks")
        => call.ret = {M \in call.states : Dead(M)}

C6_Witness ==
    /\ pc = "returned" /\ call.fn = "find_deadlocks"
    /\ Len(transitions) = 2
    /\ call.ret # {}
    /\ call.ret # call.states

\* C7: when find_deadlock_with_ilp returns found = true, the marking is one of
\* the candidates and no transition is enabled in it; when no candidate is dead,
\* or there is no candidate, it returns (false, None).
C7_IlpSound ==
    IlpCall =>
        /\ call.found =>
               /\ call.marking # None
               /\ \A M \in call.marking : M \in call.reachable /\ Dead(MarkedPlaces(M))
        /\ (\A M \in call.reachable : ~Dead(MarkedPlaces(M)))
               => ~call.found /\ call.marking = None

C7_Witness ==
    /\ IlpCall /\ call.found
    /\ \E M \in call.reachable : ~Dead(MarkedPlaces(M))
    /\ transitions # <<>>

C7_WitnessLoop ==
    /\ IlpCall /\ ~call.found
    /\ arcs = {<<"p1", "t1">>, <<"t1", "p2">>, <<"p2", "t2">>, <<"t2", "p1">>}
    /\ call.reachable = {[p1 |-> 1, p2 |-> 0], [p1 |-> 0, p2 |-> 1]}

\* C8: when some candidate has no enabled transition (every candidate of a net
\* without transitions), find_deadlock_with_ilp returns found = true and a dead
\* candidate; given the visited set of explicit_reachability as candidates, found
\* is true exactly when find_deadlocks of that set is not empty.
C8_IlpComplete ==
    IlpCall =>
        /\ (\E M \in call.reachable : Dead(MarkedPlaces(M)))
               => /\ call.found
                  /\ call.marking # None
                  /\ \A M \in call.marking : M \in call.reachable /\ Dead(MarkedPlaces(M))
        /\ call.reachable = markings_to_dict_list(explicit_reachability.visited, sorted(places))
               => (call.found <=> find_deadlocks(explicit_reachability.visited) # {})

C8_Witness ==
    /\ IlpCall /\ call.found
    /\ transitions = <<>>
    /\ Cardinality(call.reachable) >= 2

C8_WitnessFullSet ==
    /\ IlpCall /\ call.found
    /\ transitions # <<>>
    /\ Cardinality(call.reachable) >= 3
    /\ call.reachable = markings_to_dict_list(explicit_reachability.visited, sorted(places))

\* C9: if a transition has an empty preset, find_deadlock_with_ilp returns
\* (false, None) without a solver call, whatever the candidates are.
C9_EmptyPresetShortCircuit ==
    (IlpCall /\ \E t \in Range(transitions) : \A p \in places : <<p, t>> \notin arcs)
        => ~call.found /\ call.marking = None /\ call.solves = 0

C9_Witness ==
    /\ IlpCall
    /\ \E t \in Range(transitions) : \A p \in places : <<p, t>> \notin arcs
    /\ \E t \in Range(transitions) : \E p \in places : <<p, t>> \in arcs
    /\ \E M \in call.reachable :
           \A t \in Range(transitions) :
               (\E p \in places : <<p, t>> \in arcs) => ~EnabledIn(MarkedPlaces(M), t)

\* C10: a marking returned by optimize_reachable (with cuts, and single-shot)
\* satisfies M = M0 + A * sigma for some sigma >= 0, is in the fixed point of the
\* symbolic engine, and is none of the candidates the oracle rejected.
C10_OptimumSound ==
    (pc = "done" /\ opt.result # None) =>
        \A M \in opt.result :
            /\ \E sigma \in Sigmas : StateEquationHolds(M, sigma)
            /\ MarkedPlaces(M) \in reach
            /\ \A k \in 1..Len(opt.cuts) : opt.cuts[k] # M

C10_Witness ==
    /\ pc = "done" /\ opt.version = "refine"
    /\ opt.result # None
    /\ opt.cut_count >= 1

C10_WitnessSingle ==
    /\ pc = "done" /\ opt.version = "single"
    /\ opt.result # None

\* The objective value sum_p c[p] of the marked places of a marking.
ObjectiveValue(c, R) == SumOver(R, [p \in R |-> c[p]])

\* C11: a marking returned by optimize_reachable has the maximal objective value
\* among all markings reachable from the initial marking.
C11_OptimumIsMaximum ==
    (pc = "done" /\ opt.result # None) =>
        \A M \in opt.result : \A R \in ReachableMarkings :
            ObjectiveValue(opt.c, R) <= ObjectiveValue(opt.c, MarkedPlaces(M))

\* C12: the candidates examined in one call of optimize_reachable are pairwise
\* distinct: once a cut is added for a candidate, no later solve returns it.
C12_CandidatesDistinct ==
    opt.version = "refine" =>
        \A i, j \in 1..Len(opt.candidates) :
            opt.candidates[i] = opt.candidates[j] => i = j

C12_Witness ==
    /\ pc = "done" /\ opt.version = "refine"
    /\ Len(opt.candidates) >= 2
    /\ opt.cut_count >= 1

\* C13: the no-good cut built for a candidate is violated by that 0/1 assignment
\* and satisfied by every other 0/1 assignment of the place variables.
C13_CutForbidsExactlyOne ==
    \A k \in 1..Len(opt.cuts) : \A M \in [places -> {0, 1}] :
        no_good_cut(opt.cuts[k], M) <=> (M # opt.cuts[k])

C13_Witness ==
    /\ opt.version = "refine"
    /\ Len(opt.cuts) >= 1
    /\ \E k \in 1..Len(opt.cuts) : \E p, q \in places : opt.cuts[k][p] = 1 /\ opt.cuts[k][q] = 0

\* The three ways in which the refinement loop stops.
StoppedAccepted ==
    /\ opt.result # None
    /\ opt.status = "Optimal"
    /\ opt.result = Some(opt.candidates[Len(opt.candidates)])
    /\ Len(opt.cuts) = Len(opt.candidates) - 1

StoppedNotOptimal ==
    /\ opt.result = None
    /\ opt.status # "Optimal"
    /\ Len(opt.cuts) = Len(opt.candidates)

StoppedMaxCuts ==
    /\ opt.result = None
    /\ opt.status = "Optimal"
    /\ opt.cut_count >= opt.max_cuts
    /\ Len(opt.cuts) = Len(opt.candidates)

\* C14: optimize_reachable terminates, and it stops in exactly one of three ways:
\* a candidate accepted by the oracle is returned, the solver reports a status
\* other than Optimal, or the number of cuts reaches max_cuts (and the loop never
\* goes on once it has).
C14_TerminatesInOneOfThreeWays ==
    /\ [](pc = "done" /\ opt.version = "refine" =>
            \/ StoppedAccepted /\ ~StoppedNotOptimal /\ ~StoppedMaxCuts
            \/ ~StoppedAccepted /\ StoppedNotOptimal /\ ~StoppedMaxCuts
            \/ ~StoppedAccepted /\ ~StoppedNotOptimal /\ StoppedMaxCuts)
    /\ [](pc = "optimizing" /\ opt.iteration > 0 =>
            opt.cut_count = opt.iteration /\ opt.cut_count < opt.max_cuts)
    /\ (pc = "optimizing" ~> pc = "done")

C14_Witness ==
    /\ pc = "done" /\ opt.version = "refine"
    /\ StoppedMaxCuts
    /\ opt.max_cuts >= 1

C14_WitnessAccepted ==
    /\ pc = "done" /\ opt.version = "refine"
    /\ StoppedAccepted
    /\ opt.iteration >= 2

\* C15: when the loop of optimize_reachable uses up its cut budget without an
\* accepted candidate, no marking is returned and the returned log ends with the
\* budget message; the log returned from the branch of the solver status
\* (Infeasible or any other status than Optimal) never ends with it.
C15_BudgetExhaustedDistinct ==
    (pc = "done" /\ opt.version = "refine") =>
        /\ StoppedMaxCuts => (opt.result = None /\ opt.log = "max_cuts")
        /\ opt.status # "Optimal" => (opt.result = None /\ opt.log = "not_optimal")

C15_Witness ==
    /\ pc = "done" /\ opt.version = "refine"
    /\ opt.log = "max_cuts"
    /\ opt.cut_count = opt.max_cuts
    /\ opt.result = None

C15_WitnessNotOptimal ==
    /\ pc = "done" /\ opt.version = "refine"
    /\ opt.status # "Optimal"
    /\ opt.cut_count >= 1

\* C16: a solver status other than Optimal and Infeasible is returned to the
\* caller as a result distinct from the result for an infeasible problem, by
\* find_deadlock_with_ilp ((False, None)) and by optimize_reachable ((None, log
\* with the status Infeasible)).
C16_InconclusiveSurfaced ==
    /\ (ilp.called /\ ilp.solves = 1 /\ ilp.status \in InconclusiveStatuses)
          => <<ilp.found, ilp.marking>> # <<FALSE, None>>
    /\ (pc = "done" /\ opt.version = "refine" /\ opt.status \in InconclusiveStatuses)
          => <<opt.result, opt.status, opt.log>> # <<None, "Infeasible", "not_optimal">>

\* C17: for every 0/1 marking over the places and every characteristic function
\* R, is_reachable_bdd (task5 and optimization.py) returns false if and only if
\* the marking is not one of the markings of R.
C17_OracleIsMembership ==
    (pc = "returned" /\ call.fn \in {"is_reachable_bdd", "optimization_is_reachable_bdd"})
        => (call.ret = FALSE <=> MarkedPlaces(call.marking_dict) \notin call.bdd_reach)

C17_Witness ==
    /\ pc = "returned" /\ call.fn = "is_reachable_bdd"
    /\ call.ret = FALSE
    /\ \E m \in call.bdd_reach : MarkedPlaces(call.marking_dict) \subseteq m
    /\ MarkedPlaces(call.marking_dict) # {}

\* C18: the oracle of one optimize_reachable call is answered against one fixed
\* point, the one computed for the model (the reachable set of Task 3); an
\* iteration of the loop, with its oracle query, leaves that function, the
\* reachable set of Task 3 and the model unchanged; asking again about a
\* candidate gives the answer that was given in the loop.
C18_OracleFrame ==
    /\ [](opt.version # "none" => opt.bdd_reach = reach)
    /\ [][pc = "optimizing" =>
              /\ opt'.bdd_reach = opt.bdd_reach
              /\ reach' = reach
              /\ netVars' = netVars]_vars
    /\ [](opt.version = "refine" =>
              /\ \A k \in 1..Len(opt.cuts) : ~is_reachable_bdd(opt.cuts[k], opt.bdd_reach)
              /\ \A M \in opt.result : is_reachable_bdd(M, opt.bdd_reach))

C18_Witness ==
    /\ pc = "done" /\ opt.version = "refine"
    /\ Len(opt.candidates) >= 2
    /\ opt.result # None
    /\ Cardinality(reach) >= 2

\* The edges of the net's reachability graph: one per reachable marking and
\* transition enabled in it.
ReachabilityEdges ==
    {e \in ReachableMarkings \X Range(transitions) \X (SUBSET places) :
        EnabledIn(e[1], e[2]) /\ e[3] = Fired(e[1], e[2])}

\* C19: the edge list returned by explicit_reachability has exactly one entry
\* (M, t, fire(M, t)) for every reachable marking M and every transition t
\* enabled in M, and no other entry; two transitions from the same source to the
\* same destination give two entries.
C19_EdgesExact ==
    pc = "explicit_done" =>
        /\ \A k \in 1..Len(edges) : edges[k] \in ReachabilityEdges
        /\ \A e \in ReachabilityEdges :
               Cardinality({k \in 1..Len(edges) : edges[k] = e}) = 1

C19_Witness ==
    /\ pc = "explicit_done"
    /\ \E i, j \in 1..Len(edges) :
           /\ i # j
           /\ edges[i][1] = edges[j][1]
           /\ edges[i][3] = edges[j][3]
           /\ edges[i][2] # edges[j][2]
    /\ Cardinality(visited) >= 2

\* The markings enqueued so far, in the order in which they were enqueued.
Enqueued == dequeued \o queue

\* C20: explicit_reachability terminates: every marking is enqueued at most once
\* and dequeued at most once, the markings enqueued are the visited ones, at most
\* 2^|places| markings are processed, and at the return every reachable marking
\* has been dequeued.
C20_ExplicitTerminates ==
    /\ [](pc \in {"explicit", "explicit_done"} =>
            /\ \A i, j \in 1..Len(Enqueued) : Enqueued[i] = Enqueued[j] => i = j
            /\ Range(Enqueued) = visited
            /\ Len(dequeued) <= 2 ^ Cardinality(places))
    /\ [](pc = "explicit_done" => queue = <<>> /\ Range(dequeued) = ReachableMarkings)
    /\ (pc = "explicit" ~> pc = "explicit_done")

C20_Witness ==
    /\ pc = "explicit_done"
    /\ Len(dequeued) = 2 ^ Cardinality(places)
    /\ Len(edges) > Len(dequeued)

\* C21: the fixed-point loop of compute_reachability terminates, after at most
\* 2^|places| iterations, the final iteration that detects no change included.
C21_FixpointTerminates ==
    /\ [](pc \in {"symbolic", "analyze"} => iteration <= 2 ^ Cardinality(places))
    /\ [](pc = "symbolic" => iteration < 2 ^ Cardinality(places))
    /\ (pc = "symbolic" ~> pc = "analyze")

C21_Witness ==
    /\ pc = "analyze"
    /\ iteration = 2 ^ Cardinality(places)

\* C22: one more fixed-point step applied to the function returned by
\* compute_reachability yields an equal function, and the returned set is closed
\* under firing: it holds the successor of each of its markings under every
\* transition enabled in it.
C22_FixpointClosed ==
    pc = "analyze" =>
        /\ fixpoint_step(reach) = reach
        /\ \A m \in reach : \A t \in Range(transitions) :
               EnabledIn(m, t) => Fired(m, t) \in reach

\* C23: num_reachable is the number of markings of the fixed point, and so the
\* size of the reachable set of explicit_reachability, whether or not the
\* markings are extracted.
C23_CountExact ==
    pc \in {"analyze", "compare"} =>
        /\ num_reachable = Cardinality(reach)
        /\ num_reachable = Cardinality(visited)


----------------------------------------------------------------------------
\* C24: analyze returns an explicit set of markings only when the cardinality
\* of the fixed point is below the ceiling; when the cardinality is at or above
\* the ceiling no markings are extracted and only the count is reported.
C24_ExtractBelowCeiling ==
    pc = "compare" =>
        /\ reachable_markings # None => num_reachable < ExtractCeiling
        /\ num_reachable >= ExtractCeiling => reachable_markings = None

----------------------------------------------------------------------------
\* The net is 1-safe: no firing from a reachable marking puts a token into a
\* place that still holds one.
OneSafe ==
    \A M \in ReachableMarkings : \A t \in Range(transitions) :
        EnabledIn(M, t) =>
            {p \in places : <<t, p>> \in arcs} \cap (M \ {p \in places : <<p, t>> \in arcs}) = {}

\* The marking dict of a marking (set of places).
MarkingDict(R) == [p \in places |-> IF p \in R THEN 1 ELSE 0]

\* C25: for a 1-safe model every reachable marking satisfies M = M0 + A * sigma
\* for some sigma >= 0, so the feasible region of the optimizer's problem
\* contains the whole reachable set before any cut is added.
C25_StateEquationNecessary ==
    (opt.version # "none" /\ OneSafe) =>
        \A R \in ReachableMarkings :
            /\ \E sigma \in Sigmas : StateEquationHolds(MarkingDict(R), sigma)
            /\ MarkingDict(R) \in prob_feasible(opt.prob, <<>>)

C25_Witness ==
    /\ opt.version # "none"
    /\ OneSafe
    /\ Cardinality(ReachableMarkings) = 4
    /\ \E t \in Range(transitions) : \E p, q \in places : <<p, t>> \in arcs /\ <<t, q>> \in arcs

----------------------------------------------------------------------------
\* Post - Pre on the arcs of the net.
PostMinusPre(p, t) ==
    (IF <<t, p>> \in arcs THEN 1 ELSE 0) - (IF <<p, t>> \in arcs THEN 1 ELSE 0)

\* C26: the entry of the incidence matrix for place p and transition t is +1
\* if t produces into p, -1 if t consumes from p and 0 otherwise (Post - Pre),
\* with rows and columns in the sorted order of places and transitions by which
\* optimize_reachable indexes its variables: the problem it sets up is the
\* state equation written place by place and transition by transition.
C26_IncidenceMatrix ==
    opt.version # "none" =>
        LET ps == sorted(places)
            ts == sorted(Range(transitions))
        IN /\ Len(incidence_matrix) = Cardinality(places)
           /\ \A i \in 1..Len(ps) :
                  /\ Len(incidence_matrix[i]) = Len(transitions)
                  /\ \A j \in 1..Len(ts) :
                         incidence_matrix[i][j] = PostMinusPre(ps[i], ts[j])
           /\ opt.prob = {M \in [places -> {0, 1}] :
                             \E sigma \in Sigmas : StateEquationHolds(M, sigma)}

C26_Witness ==
    /\ opt.version # "none"
    /\ transitions = <<"t2", "t1">>
    /\ \E p, q \in places :
           /\ PostMinusPre(p, "t1") = 1 /\ PostMinusPre(q, "t1") = -1
           /\ PostMinusPre(p, "t2") = 0 /\ <<p, "t2">> \in arcs /\ <<"t2", p>> \in arcs

----------------------------------------------------------------------------
\* C27: when the explicit enumeration or the bounded symbolic extraction
\* exceeds the size ceiling the engine stops; it never enumerates markings
\* beyond the ceiling (the explicit explorer never holds more markings than the
\* ceiling, and above the ceiling the symbolic analysis extracts none).
C27_EnumerationCapped ==
    /\ Cardinality(visited) <= ExtractCeiling
    /\ (pc = "compare" /\ num_reachable > ExtractCeiling) => reachable_markings = None

----------------------------------------------------------------------------
\* C28 (Scenario C): on the branching net the explicit explorer and the
\* symbolic engine both yield exactly the markings {p1}, {p2}, {p3}, {p4},
\* find_deadlocks yields exactly {p4}, and the ILP detector given those four
\* candidates returns found = true with the witness {p4} (both detectors).
C28_ScenarioC ==
    LET p4_dict == [p \in places |-> IF p = "p4" THEN 1 ELSE 0]
        candidates == markings_to_dict_list(ScenarioCReachable, sorted(places))
    IN /\ ExplicitReturned => visited = ScenarioCReachable
       /\ pc \in {"symbolic_start", "symbolic", "analyze", "compare", "ilp", "optimize",
                  "optimizing", "done"} => deadlocks = {{"p4"}}
       /\ pc \in {"analyze", "compare", "ilp", "optimize", "optimizing", "done"} =>
              reach = ScenarioCReachable /\ num_reachable = 4
       /\ pc \in {"compare", "ilp", "optimize", "optimizing", "done"} =>
              reachable_markings = Some(ScenarioCReachable)
       /\ pc \in {"ilp", "optimize", "optimizing", "done"} => reach_sets_equal = Some(TRUE)
       /\ ilp.called =>
              /\ ilp.reachable = candidates
              /\ ilp.found /\ ilp.marking = Some(p4_dict)
              /\ \A r \in task4_find_deadlock_with_ilp(sorted(places), transitions_ilp,
                                                       candidates) :
                     r.found /\ r.marking = Some(p4_dict)

C28_Witness ==
    /\ places = ScenarioCPlaces /\ arcs = ScenarioCArcs /\ marked = {"p1"}
    /\ pc = "done"
    /\ visited = ScenarioCReachable /\ reach = ScenarioCReachable
    /\ deadlocks = {{"p4"}}
    /\ ilp.called /\ ilp.found

----------------------------------------------------------------------------
\* Scenario D: t1: p1 -> p2 and t2: p2 -> p1, initially p1, weight 1 on both
\* places.
ScenarioD ==
    /\ places = {"p1", "p2"}
    /\ arcs = {<<"p1", "t1">>, <<"t1", "p2">>, <<"p2", "t2">>, <<"t2", "p1">>}
    /\ marked = {"p1"}
    /\ opt.version # "none"
    /\ opt.c = [p \in places |-> 1]

\* C29 (Scenario D): optimize_reachable returns a marking with objective value
\* 1 whenever the solver answers, and the marking with both places marked is
\* never returned (nor proposed as a candidate).
C29_ScenarioD ==
    (ScenarioD /\ pc = "done") =>
        /\ opt.status = "Optimal" => opt.result # None
        /\ \A M \in opt.result :
               /\ objective(opt.c, M) = 1
               /\ M # [p \in places |-> 1]
        /\ \A k \in 1..Len(opt.candidates) : opt.candidates[k] # [p \in places |-> 1]

C29_Witness ==
    /\ ScenarioD /\ pc = "done"
    /\ opt.version = "refine"
    /\ opt.result = Some([p \in places |-> IF p = "p2" THEN 1 ELSE 0])

----------------------------------------------------------------------------
\* C30: compute_image(S, t) returns exactly the set of the markings fire(m, t)
\* for the markings m of S in which t is enabled; it is empty when no marking
\* of S enables t, and the markings that do not enable t contribute nothing.
C30_ImageExact ==
    (pc = "returned" /\ call.fn = "compute_image") =>
        call.ret = {Fired(m, call.tid) :
                       m \in {n \in call.marking_set : EnabledIn(n, call.tid)}}

----------------------------------------------------------------------------
\* Some transition of the model has no input place.
HasEmptyPreset == \E t \in Range(transitions) : \A p \in places : <<p, t>> \notin arcs

\* C31: if the model has a transition with an empty preset, that transition is
\* enabled in every marking, find_deadlocks returns nothing for any set of
\* markings, and the answer of the detector (not found) agrees with the
\* explicit scan of its candidates.
C31_EmptyPresetNoDeadlock ==
    (HasEmptyPreset /\ pc = "returned") =>
        /\ (call.fn \in {"is_enabled", "explicit_is_enabled"}
            /\ \A p \in places : <<p, call.tid>> \notin arcs) => call.ret = TRUE
        /\ call.fn = "find_deadlocks" => call.ret = {}
        /\ call.fn = "find_deadlock_with_ilp" =>
               /\ ~call.found
               /\ find_deadlocks({MarkedPlaces(M) : M \in call.reachable}) = {}

C31_Witness ==
    /\ HasEmptyPreset /\ pc = "returned"
    /\ call.fn = "find_deadlocks"
    /\ {} \in call.states /\ Cardinality(call.states) >= 2
    /\ \E t \in Range(transitions) : \E p \in places : <<p, t>> \in arcs

C31_WitnessDetector ==
    /\ HasEmptyPreset /\ pc = "returned"
    /\ call.fn = "find_deadlock_with_ilp"
    /\ Cardinality(call.reachable) >= 2
    /\ \E t \in Range(transitions) : \E p \in places : <<p, t>> \in arcs

----------------------------------------------------------------------------
\* C32: fire never modifies the marking it is given (the popped marking is the
\* source of every edge recorded for it, the successor is a new value, and the
\* markings and edges already stored stay as they are), and every step of
\* explicit_reachability, find_deadlocks, compute_reachability,
\* find_deadlock_with_ilp and optimize_reachable leaves the places, the
\* transitions, the arcs and the initial-marking flags of the model unchanged.
C32_Frame ==
    [][/\ places' = places /\ transitions' = transitions
       /\ arcs' = arcs /\ marked' = marked
       /\ (pc = "explicit" /\ queue # <<>>) =>
              /\ visited \subseteq visited'
              /\ Head(queue) \in visited'
              /\ \A k \in 1..Len(edges) : edges'[k] = edges[k]
              /\ \A k \in (Len(edges) + 1)..Len(edges') :
                     /\ edges'[k][1] = Head(queue)
                     /\ edges'[k][3] = Fired(Head(queue), edges'[k][2])]_vars

C32_Witness ==
    /\ pc = "done"
    /\ opt.result # None
    /\ ilp.called
    /\ \E k \in 1..Len(edges) : edges[k][1] # edges[k][3]
    /\ Len(edges) >= 3

----------------------------------------------------------------------------
\* The markings reachable from the initial marking in at most k firings.
RECURSIVE ReachableWithin(_)
ReachableWithin(k) ==
    IF k = 0 THEN {marked \cap places}
    ELSE LET S == ReachableWithin(k - 1)
         IN S \cup UNION {{Fired(M, t) : t \in {u \in Range(transitions) : EnabledIn(M, u)}} :
                             M \in S}

\* The minimum firing distance of a reachable marking from the initial marking.
Distance(M) ==
    CHOOSE k \in 0..(2 ^ Cardinality(places)) :
        /\ M \in ReachableWithin(k)
        /\ \A j \in 0..(k - 1) : M \notin ReachableWithin(j)

\* C33: explicit_reachability is breadth-first: the markings are dequeued (and
\* wait in the queue) in non-decreasing order of their minimum firing distance
\* from the initial marking, and the edge by which a marking is first added to
\* visited ends a shortest firing sequence to it.
C33_BreadthFirst ==
    pc \in {"explicit", "explicit_done"} =>
        LET order == dequeued \o queue IN
        /\ \A i, j \in 1..Len(order) :
               i < j => Distance(order[i]) <= Distance(order[j])
        /\ \A k \in 1..Len(edges) :
               (/\ edges[k][3] # initial_marking
                /\ \A j \in 1..(k - 1) : edges[j][3] # edges[k][3])
               => Distance(edges[k][3]) = Distance(edges[k][1]) + 1

C33_Witness ==
    /\ pc = "explicit_done"
    /\ Len(dequeued) = 4
    /\ Distance(dequeued[4]) = 2
    /\ Distance(dequeued[2]) = 1 /\ Distance(dequeued[3]) = 1

----------------------------------------------------------------------------
\* max(1, max_cuts)
SolveBudget(max_cuts) == IF max_cuts >= 1 THEN max_cuts ELSE 1

\* C34: optimize_reachable calls the solver at most max(1, max_cuts) times; it
\* stops right after adding the max_cuts-th cut, without solving again, so the
\* problem with all the cuts is never solved (every solve had fewer cuts than
\* there are at the end).
C34_SolveBudget ==
    opt.version = "refine" =>
        /\ opt.solves <= SolveBudget(opt.max_cuts)
        /\ opt.solves = opt.iteration
        /\ opt.log = "max_cuts" =>
               /\ pc = "done" /\ opt.result = None
               /\ opt.cut_count = SolveBudget(opt.max_cuts)
               /\ Len(opt.cuts) = opt.cut_count
               /\ opt.solves = opt.cut_count

C34_Witness ==
    /\ opt.version = "refine" /\ pc = "done"
    /\ opt.log = "max_cuts"
    /\ opt.max_cuts = 1 /\ opt.solves = 1
    /\ prob_feasible(opt.prob, opt.cuts) # {}

C34_WitnessTwoSolves ==
    /\ opt.version = "refine" /\ pc = "done"
    /\ opt.max_cuts = 2 /\ opt.solves = 2

----------------------------------------------------------------------------
\* C35: at every iteration of the refinement loop every marking of the
\* symbolic reachable set satisfies all the no-good cuts added so far (a cut is
\* added only for a candidate the oracle rejected), so the cuts exclude no
\* marking of that set from the problem.
C35_CutsKeepReachable ==
    opt.version = "refine" =>
        /\ \A m \in opt.bdd_reach : \A k \in 1..Len(opt.cuts) :
               no_good_cut(opt.cuts[k], MarkingDict(m))
        /\ \A k \in 1..Len(opt.cuts) : MarkedPlaces(opt.cuts[k]) \notin opt.bdd_reach
        /\ {M \in opt.prob : MarkedPlaces(M) \in opt.bdd_reach}
               \subseteq prob_feasible(opt.prob, opt.cuts)

C35_Witness ==
    /\ opt.version = "refine"
    /\ pc = "optimizing"
    /\ Len(opt.cuts) = 1
    /\ Cardinality(opt.bdd_reach) >= 2
    /\ \E m \in opt.bdd_reach : MarkingDict(m) \in opt.prob

----------------------------------------------------------------------------
\* The 0/1 solutions of the state equation that the oracle rejects.
UnreachableSolutions == {M \in opt.prob : MarkedPlaces(M) \notin opt.bdd_reach}

----------------------------------------------------------------------------
\* C37: within one optimize_reachable call the objective values of the
\* successive ILP candidates are non-increasing from one refinement iteration
\* to the next.
C37_CandidatesNonIncreasing ==
    opt.version = "refine" =>
        \A k \in 1..(Len(opt.candidates) - 1) :
            objective(opt.c, opt.candidates[k]) >= objective(opt.c, opt.candidates[k + 1])

C37_Witness ==
    /\ opt.version = "refine"
    /\ Len(opt.candidates) = 2
    /\ objective(opt.c, opt.candidates[1]) > objective(opt.c, opt.candidates[2])

----------------------------------------------------------------------------
\* C38: during compute_reachability the reach set always contains the initial
\* marking and contains only markings reachable from it, and after k
\* iterations it contains every marking reachable in at most k firings.
C38_ReachLayers ==
    pc \in {"symbolic", "analyze"} =>
        /\ initial_marking \in reach
        /\ reach \subseteq ReachableMarkings
        /\ ReachableWithin(iteration) \subseteq reach

\* C38, the step: the reach set after an iteration is a superset of the set
\* before it.
C38_ReachGrows == [][pc = "symbolic" => reach \subseteq reach']_vars

----------------------------------------------------------------------------
\* C39: for every marking M and transition t enabled in M the three firing
\* implementations give the same successor: fire of explicit.py (remove), fire
\* of explicit_reachability.py (guarded remove) and the firing inside
\* compute_image (discard), applied to the set that holds M alone.
C39_FiringsAgree ==
    (/\ pc = "returned"
     /\ \/ call.fn \in {"fire", "explicit_fire"}
        \/ call.fn = "compute_image" /\ Cardinality(call.marking_set) = 1)
    => LET M == IF call.fn = "compute_image"
                THEN CHOOSE m \in call.marking_set : TRUE
                ELSE call.marking
           t == call.tid
       IN EnabledIn(M, t) =>
              /\ explicit_fire(M, t) = [error |-> FALSE, marking |-> Some(fire(M, t))]
              /\ compute_image(marking_to_bdd(M), t) = marking_to_bdd(fire(M, t))
              /\ call.fn = "fire" => call.ret = explicit_fire(M, t).marking
              /\ call.fn = "explicit_fire" => ~call.error /\ call.ret = Some(fire(M, t))
              /\ call.fn = "compute_image" => call.ret = {fire(M, t)}

C39_Witness ==
    /\ pc = "returned"
    /\ call.fn = "compute_image"
    /\ Cardinality(call.marking_set) = 1
    /\ \A m \in call.marking_set : EnabledIn(m, call.tid) /\ m = {"p1", "p2"}
    /\ \E p, q \in places :
           /\ p # q
           /\ <<p, call.tid>> \in arcs /\ <<call.tid, p>> \in arcs
           /\ <<q, call.tid>> \in arcs /\ <<call.tid, q>> \notin arcs

----------------------------------------------------------------------------
\* The fixed point of the symbolic engine as a function of the set of
\* transitions, whatever their order.
RECURSIVE OrderFreeFixpoint(_)
OrderFreeFixpoint(r) ==
    LET new == r \cup UNION {compute_image(r, tid) : tid \in Range(transitions)}
    IN IF new = r THEN r ELSE OrderFreeFixpoint(new)

\* The number of entries of the edge list equal to e.
EdgeCount(e) == Cardinality({k \in 1..Len(edges) : edges[k] = e})

\* C40: the reachable set and the multiset of edges returned by
\* explicit_reachability and the fixed point returned by compute_reachability
\* do not depend on the order in which the transitions are iterated: in every
\* run they are the values determined by the net alone (its places, arcs,
\* initial marking and set of transitions), so runs with different orders agree.
C40_OrderIndependent ==
    /\ ExplicitReturned =>
           /\ visited = ReachableMarkings
           /\ Len(edges) = Cardinality(ReachabilityEdges)
           /\ \A k \in 1..Len(edges) : EdgeCount(edges[k]) = 1
           /\ {edges[k] : k \in 1..Len(edges)} = ReachabilityEdges
    /\ pc \in {"analyze", "compare", "ilp", "optimize", "optimizing", "done"} =>
           reach = OrderFreeFixpoint(marking_to_bdd(initial_marking))

C40_Witness ==
    /\ pc = "compare"
    /\ transitions = <<"t4", "t3", "t2", "t1">>
    /\ Len(edges) >= 3
    /\ edges[1][1] = edges[3][1] /\ edges[1][2] = "t4" /\ edges[3][2] = "t1"
    /\ Cardinality(reach) >= 3

====
